---- MODULE Spec2Model ----
(***************************************************************************)
(* Campus Vault (src/app.py): a Flask application over two SQLite tables,  *)
(* user and transaction, with a flask-login session.  Every route handler  *)
(* is one action; the database tables, the login session, the server clock *)
(* and the last HTTP response are the state.                               *)
(*                                                                         *)
(* Amounts and budgets are Python floats in the source.  The model draws   *)
(* them from whole numbers, on which float arithmetic is exact.            *)
(***************************************************************************)
EXTENDS Integers, Sequences, FiniteSets, TLC

VARIABLES
    users,      \* rows of table user
    txs,        \* rows of table transaction
    session,    \* flask-login's _user_id of the browser session, or NoUser
    now,        \* the server clock, hours of UTC
    tz,         \* the server's local UTC offset, hours
    inflight,   \* register requests past the existence check, not yet committed
    last        \* the last request and its HTTP response

vars == <<users, txs, session, now, tz, inflight, last>>

None == "None"
NoUser == 0

(* ------------------------------ bounds --------------------------------- *)
MaxUsers == 2       \* rows of table user
MaxTx == 1          \* rows of table transaction that requests build up
MaxRows == 2        \* rows of table transaction the dashboard starts from
MaxInflight == 2    \* register requests in flight at once
HoursPerMonth == 2  \* the calendar is cut to months of this many hours

(* --------------------------- program constants ------------------------- *)
DefaultBudget == 5000
MonthsPerYear == 12

(* ------------------------------ inputs --------------------------------- *)
Usernames == {"amy", "bob"}
Passwords == {"pw1", "pw2"}
Salts == {"s1"}
Descriptions == {"rent"}
TypeInputs == {"Income", "Expense", "Other", None}
AmountInputs == {<<"-", "1">>, <<"2">>, <<"3">>, <<"x">>}
BudgetInputs == {<<"2">>, <<"x">>}
TzOffsets == {0, 1}
Methods == {"GET", "POST"}
ProtectedRoutes == {"index", "logout", "add", "delete", "settings", "export"}

(* ------------------------------ float() -------------------------------- *)
Digits == {"0", "1", "2", "3", "4", "5", "6", "7", "8", "9"}

DigitVal(c) ==
    CASE c = "0" -> 0 [] c = "1" -> 1 [] c = "2" -> 2 [] c = "3" -> 3
      [] c = "4" -> 4 [] c = "5" -> 5 [] c = "6" -> 6 [] c = "7" -> 7
      [] c = "8" -> 8 [] c = "9" -> 9

RECURSIVE DigitsVal(_)
DigitsVal(s) ==
    IF s = <<>> THEN 0
    ELSE 10 * DigitsVal(SubSeq(s, 1, Len(s) - 1)) + DigitVal(s[Len(s)])

AllDigits(s) == s # <<>> /\ \A i \in 1..Len(s) : s[i] \in Digits

\* float(text) on a signed whole-number literal; anything else raises ValueError
ParseFloat(s) ==
    IF AllDigits(s) THEN [ok |-> TRUE, val |-> DigitsVal(s)]
    ELSE IF s # <<>> /\ s[1] = "-" /\ AllDigits(Tail(s))
         THEN [ok |-> TRUE, val |-> 0 - DigitsVal(Tail(s))]
    ELSE IF s # <<>> /\ s[1] = "+" /\ AllDigits(Tail(s))
         THEN [ok |-> TRUE, val |-> DigitsVal(Tail(s))]
    ELSE [ok |-> FALSE, val |-> 0]

(* --------------------------- werkzeug.security ------------------------- *)
Digest(salt, password) == <<"pbkdf2:sha256", salt, password>>

generate_password_hash(password, salt) ==
    [salt |-> salt, digest |-> Digest(salt, password)]

\* a check that accepts any password for a stored hash
check_password_hash_any(pwhash, password) ==
    pwhash.salt \in Salts

check_password_hash(pwhash, password) ==
    pwhash.digest = Digest(pwhash.salt, password)

(* ------------------------------ datetime ------------------------------- *)
HoursPerYear == HoursPerMonth * MonthsPerYear
Epoch == HoursPerYear

Month(t) == ((t \div HoursPerMonth) % MonthsPerYear) + 1
Year(t) == t \div HoursPerYear

utcnow == now
localnow == now + tz

(* ------------------------------ tables --------------------------------- *)
SetMax(S) == CHOOSE m \in S : \A x \in S : x <= m

\* SQLite INTEGER PRIMARY KEY: one more than the largest id in the table
NextId(rows) == IF rows = {} THEN 1 ELSE SetMax({r.id : r \in rows}) + 1

\* Query.first(): the row of the lowest id
First(rows) == CHOOSE r \in rows : \A x \in rows : r.id <= x.id

UserByName(username) == {u \in users : u.username = username}
UserById(id) == {u \in users : u.id = id}

\* load_user: the session's user row
current_user == CHOOSE u \in users : u.id = session

is_authenticated == session # NoUser /\ UserById(session) # {}

\* route and form of the request; status, flashed messages and payload of the
\* response
Response(route, method, form, outcome, flashes, page) ==
    [route |-> route, method |-> method, form |-> form, outcome |-> outcome,
     flashes |-> flashes, page |-> page]

\* @login_required without a session: flask-login redirects to login_view
Unauthorized(route, method) ==
    /\ ~is_authenticated
    /\ last' = Response(route, method, None, "redirect_login",
                        <<"please_log_in">>, None)
    /\ UNCHANGED <<users, txs, session, now, tz, inflight>>

Init ==
    /\ users = {}
    /\ txs = {}
    /\ session = NoUser
    /\ now = Epoch
    /\ tz \in TzOffsets
    /\ inflight = {}
    /\ last = Response("start", None, None, None, <<>>, None)

(* ------------------------------ index ---------------------------------- *)
\* Transaction.query.filter_by(user_id=uid).order_by(Transaction.date.desc()):
\* every ordering of the user's rows that is descending by date (the order of
\* rows with equal dates is the storage engine's)
OrderedByDateDesc(rows, uid) ==
    LET mine == {t \in rows : t.user_id = uid}
        n == Cardinality(mine)
    IN  {s \in [1..n -> mine] :
            /\ \A i, j \in 1..n : i # j => s[i] # s[j]
            /\ \A i, j \in 1..n : i < j => s[i].date >= s[j].date}

RECURSIVE SumAmounts(_, _)
\* sum(t.amount for t in seq if t.type == type)
SumAmounts(seq, type) ==
    IF seq = <<>> THEN 0
    ELSE (IF Head(seq).type = type THEN Head(seq).amount ELSE 0)
         + SumAmounts(Tail(seq), type)

\* a filter that compares the month and forgets the year
InMonthOf_month_only(t, clock) ==
    Month(t.date) = Month(clock)

\* t.date.month == now.month and t.date.year == now.year
InMonthOf(t, clock) ==
    Month(t.date) = Month(clock) /\ Year(t.date) = Year(clock)

\* the payload index() hands to the template, from the ordered query result
MonthlySummary(all_transactions, clock) ==
    LET monthly_transactions ==
            SelectSeq(all_transactions, LAMBDA t : InMonthOf(t, clock))
        total_income == SumAmounts(monthly_transactions, "Income")
        total_expense == SumAmounts(monthly_transactions, "Expense")
    IN  [transactions |-> monthly_transactions,
         income |-> total_income,
         expenses |-> total_expense,
         balance |-> total_income - total_expense]

index ==
    \/ Unauthorized("index", "GET")
    \/ /\ is_authenticated
       /\ \E all_transactions \in OrderedByDateDesc(txs, current_user.id) :
            last' = Response("index", "GET", None, "render_index", <<>>,
                             MonthlySummary(all_transactions, localnow))
       /\ UNCHANGED <<users, txs, session, now, tz, inflight>>

(* ------------------------------ login ---------------------------------- *)
login(usernames, passwords) ==
    \E method \in Methods, username \in usernames, password \in passwords :
        \/ /\ method = "GET"
           /\ last' = Response("login", "GET", None, "render_login", <<>>, None)
           /\ UNCHANGED <<users, txs, session, now, tz, inflight>>
        \/ /\ method = "POST"
           /\ LET found == UserByName(username)
                  user == First(found)
                  form == [username |-> username, password |-> password]
              IN  IF found # {} /\ check_password_hash(user.password, password)
                  THEN /\ session' = user.id
                       /\ last' = Response("login", "POST", form,
                                           "redirect_index", <<>>, None)
                  ELSE /\ session' = session
                       /\ last' = Response("login", "POST", form,
                                           "render_login",
                                           <<"login_failed">>, None)
           /\ UNCHANGED <<users, txs, now, tz, inflight>>

(* ------------------------------ register ------------------------------- *)
\* a username column without unique=True
UniqueViolation_none(rows, username) == FALSE

\* INSERT INTO user under the UNIQUE constraint on username (line 24)
UniqueViolation(rows, username) == \E u \in rows : u.username = username

NewUser(username, hashed_pw) ==
    [id |-> NextId(users), username |-> username, password |-> hashed_pw,
     budget |-> DefaultBudget]

\* a duplicate registration that logs the requester in as the existing user
RegisterDuplicate_logs_in(username) ==
    /\ UserByName(username) # {}
    /\ session' = First(UserByName(username)).id
    /\ last' = Response("register", "POST", [username |-> username],
                        "redirect_register", <<"username_exists">>, None)
    /\ UNCHANGED <<users, txs, now, tz, inflight>>

\* lines 104-106: the username is taken
RegisterDuplicate(username) ==
    /\ UserByName(username) # {}
    /\ last' = Response("register", "POST", [username |-> username],
                        "redirect_register", <<"username_exists">>, None)
    /\ UNCHANGED <<users, txs, session, now, tz, inflight>>

\* lines 111-115: commit the new row and log it in, or fail on the constraint
CommitUser(username, hashed_pw) ==
    IF UniqueViolation(users, username)
    THEN /\ last' = Response("register", "POST", [username |-> username],
                             "server_error", <<>>, None)
         /\ UNCHANGED <<users, session>>
    ELSE /\ users' = users \cup {NewUser(username, hashed_pw)}
         /\ session' = NewUser(username, hashed_pw).id
         /\ last' = Response("register", "POST", [username |-> username],
                             "redirect_index", <<>>, None)

\* one register request handled start to finish
register(usernames, passwords) ==
    \E method \in Methods, username \in usernames, password \in passwords,
       salt \in Salts :
        \/ /\ method = "GET"
           /\ last' = Response("register", "GET", None, "render_register",
                               <<>>, None)
           /\ UNCHANGED <<users, txs, session, now, tz, inflight>>
        \/ /\ method = "POST"
           /\ RegisterDuplicate(username)
        \/ /\ method = "POST"
           /\ UserByName(username) = {}
           /\ Cardinality(users) < MaxUsers
           /\ CommitUser(username, generate_password_hash(password, salt))
           /\ UNCHANGED <<txs, now, tz, inflight>>

\* a register request passes the existence check of line 104 and is preempted
RegisterCheck ==
    \E username \in Usernames, password \in Passwords, salt \in Salts :
        /\ UserByName(username) = {}
        /\ Cardinality(inflight) < MaxInflight
        /\ inflight' = inflight \cup
             {[rid |-> NextId([id : {r.rid : r \in inflight}]),
               username |-> username,
               password |-> generate_password_hash(password, salt)]}
        /\ UNCHANGED <<users, txs, session, now, tz, last>>

\* the preempted request resumes at line 109
RegisterCommit ==
    \E r \in inflight :
        /\ Cardinality(users) < MaxUsers
        /\ inflight' = inflight \ {r}
        /\ CommitUser(r.username, r.password)
        /\ UNCHANGED <<txs, now, tz>>

\* a logout that forgets logout_user()
logout_keeps_session ==
    \/ Unauthorized("logout", "GET")
    \/ /\ is_authenticated
       /\ last' = Response("logout", "GET", None, "redirect_login", <<>>, None)
       /\ UNCHANGED <<users, txs, session, now, tz, inflight>>

(* ------------------------------ logout --------------------------------- *)
logout ==
    \/ Unauthorized("logout", "GET")
    \/ /\ is_authenticated
       /\ session' = NoUser
       /\ last' = Response("logout", "GET", None, "redirect_login", <<>>, None)
       /\ UNCHANGED <<users, txs, now, tz, inflight>>

(* ------------------------------ add ------------------------------------ *)
\* a budget alert that also fires on an expense equal to the budget
Notice_at_budget(type, amount, budget) ==
    IF type = "Expense" /\ amount >= budget THEN "budget_exceeded"
    ELSE IF type = "Income" THEN "income_added"
    ELSE "added"

\* lines 136-142
Notice(type, amount, budget) ==
    IF type = "Expense" /\ amount > budget THEN "budget_exceeded"
    ELSE IF type = "Income" THEN "income_added"
    ELSE "added"

add_transaction(amounts, types, cap) ==
    \/ Unauthorized("add", "POST")
    \/ /\ is_authenticated
       /\ \E description \in Descriptions, text \in amounts, type \in types :
            LET amount == ParseFloat(text)
                form == [amount |-> text, type |-> type]
                new_trans == [id |-> NextId(txs), description |-> description,
                              amount |-> amount.val, type |-> type,
                              date |-> utcnow, user_id |-> current_user.id]
                notice == Notice(type, amount.val, current_user.budget)
            IN  IF ~amount.ok
                THEN \* float() raises before anything is flashed or stored
                     /\ last' = Response("add", "POST", form, "server_error",
                                         <<>>, None)
                     /\ txs' = txs
                ELSE IF type = None
                THEN \* type is NOT NULL: the commit fails after the flash
                     /\ last' = Response("add", "POST", form, "server_error",
                                         <<notice>>, None)
                     /\ txs' = txs
                ELSE /\ Cardinality(txs) < cap
                     /\ txs' = txs \cup {new_trans}
                     /\ last' = Response("add", "POST", form, "redirect_index",
                                         <<notice>>, None)
       /\ UNCHANGED <<users, session, now, tz, inflight>>

\* a delete without the ownership check of line 158
delete_transaction_unchecked ==
    \/ Unauthorized("delete", "GET")
    \/ /\ is_authenticated
       /\ \E id \in 1..(MaxTx + 1) :
            LET found == {t \in txs : t.id = id}
            IN  IF found = {}
                THEN /\ last' = Response("delete", "GET", [id |-> id],
                                         "not_found", <<>>, None)
                     /\ txs' = txs
                ELSE /\ txs' = txs \ found
                     /\ last' = Response("delete", "GET", [id |-> id],
                                         "redirect_index", <<>>, None)
       /\ UNCHANGED <<users, session, now, tz, inflight>>

(* ------------------------------ delete --------------------------------- *)
delete_transaction ==
    \/ Unauthorized("delete", "GET")
    \/ /\ is_authenticated
       /\ \E id \in 1..(MaxTx + 1) :
            LET found == {t \in txs : t.id = id}
                transaction == First(found)
                form == [id |-> id]
            IN  IF found = {}
                THEN /\ last' = Response("delete", "GET", form, "not_found",
                                         <<>>, None)
                     /\ txs' = txs
                ELSE /\ txs' = IF transaction.user_id = current_user.id
                               THEN txs \ {transaction}
                               ELSE txs
                     /\ last' = Response("delete", "GET", form,
                                         "redirect_index", <<>>, None)
       /\ UNCHANGED <<users, session, now, tz, inflight>>

(* ------------------------------ settings ------------------------------- *)
settings(budgets) ==
    \/ \E method \in Methods : Unauthorized("settings", method)
    \/ /\ is_authenticated
       /\ \E method \in Methods, text \in budgets :
            LET new_budget == ParseFloat(text)
                form == [budget |-> text]
            IN  IF method = "GET"
                THEN /\ last' = Response("settings", "GET", None,
                                         "render_settings", <<>>, None)
                     /\ users' = users
                ELSE IF ~new_budget.ok
                THEN /\ last' = Response("settings", "POST", form,
                                         "server_error", <<>>, None)
                     /\ users' = users
                ELSE /\ users' = (users \ {current_user}) \cup
                            {[current_user EXCEPT !.budget = new_budget.val]}
                     /\ last' = Response("settings", "POST", form,
                                         "redirect_index",
                                         <<"budget_updated">>, None)
       /\ UNCHANGED <<txs, session, now, tz, inflight>>

(* ------------------------------ export --------------------------------- *)
export_transactions ==
    \/ Unauthorized("export", "GET")
    \/ /\ is_authenticated
       /\ \E transactions \in OrderedByDateDesc(txs, current_user.id) :
            last' = Response("export", "GET", None, "csv", <<>>,
                             [i \in 1..Len(transactions) |->
                                <<transactions[i].date,
                                  transactions[i].description,
                                  transactions[i].type,
                                  transactions[i].amount>>])
       /\ UNCHANGED <<users, txs, session, now, tz, inflight>>

(* ------------------------------ specifications ------------------------- *)
\* The application with every route, the clock standing still.  Two users
\* register and log in with either password; transactions are expenses of 3.
Next ==
    \/ index
    \/ login(Usernames, Passwords)
    \/ register(Usernames, Passwords)
    \/ logout
    \/ add_transaction({<<"3">>}, {"Expense"}, MaxTx)
    \/ delete_transaction
    \/ settings(BudgetInputs)
    \/ export_transactions

Spec == Init /\ [][Next]_vars

\* One user's ledger: every amount and category the form can submit.
NextLedger ==
    \/ index
    \/ login({"amy"}, {"pw1"})
    \/ register({"amy"}, {"pw1"})
    \/ logout
    \/ add_transaction(AmountInputs, TypeInputs, MaxTx)
    \/ delete_transaction
    \/ settings(BudgetInputs)
    \/ export_transactions

SpecLedger == Init /\ [][NextLedger]_vars

\* Concurrent register requests: each may be preempted between the existence
\* check and the commit.
NextRace ==
    \/ RegisterCheck
    \/ RegisterCommit
    \/ register(Usernames, Passwords)
    \/ login(Usernames, Passwords)
    \/ logout

SpecRace == Init /\ [][NextRace]_vars

(* ------------------------------ dashboard ------------------------------ *)
\* Instants of the cut calendar: the last hour of a month, the first hour of
\* the next month, and the last hour of the same month a year later.
Instants ==
    {Epoch + HoursPerMonth - 1, Epoch + HoursPerMonth,
     Epoch + HoursPerYear + HoursPerMonth - 1}

\* amy and bob have registered with the default budget
RegisteredUsers ==
    {[id |-> 1, username |-> "amy",
      password |-> generate_password_hash("pw1", "s1"),
      budget |-> DefaultBudget],
     [id |-> 2, username |-> "bob",
      password |-> generate_password_hash("pw2", "s1"),
      budget |-> DefaultBudget]}

RowShapes ==
    [description : Descriptions, amount : {2, 3},
     type : {"Income", "Expense", "Other"}, date : Instants, user_id : {1, 2}]

\* the table whose row of id i has the i-th shape
Ledger(shapes) ==
    {[id |-> i, description |-> shapes[i].description,
      amount |-> shapes[i].amount, type |-> shapes[i].type,
      date |-> shapes[i].date, user_id |-> shapes[i].user_id]
       : i \in 1..Len(shapes)}

\* rows were created in the order of their ids, none after the clock
CreatedInOrder(shapes, clock) ==
    /\ \A i \in 1..Len(shapes) : shapes[i].date <= clock
    /\ \A i, j \in 1..Len(shapes) : i < j => shapes[i].date <= shapes[j].date

\* either user is logged in or the browser is logged out, at some instant,
\* over some ledger of the two users
InitDashboard ==
    /\ users = RegisteredUsers
    /\ session \in {NoUser, 1, 2}
    /\ tz \in TzOffsets
    /\ now \in Instants
    /\ \E n \in 0..MaxRows : \E shapes \in [1..n -> RowShapes] :
            /\ CreatedInOrder(shapes, now)
            /\ txs = Ledger(shapes)
    /\ inflight = {}
    /\ last = IF session = NoUser
              THEN Response("logout", "GET", None, "redirect_login", <<>>, None)
              ELSE LET user == First(UserById(session))
                   IN  Response("login", "POST",
                                [username |-> user.username,
                                 password |-> user.password.digest[3]],
                                "redirect_index", <<>>, None)

\* time passes between two requests
Tick ==
    /\ \E t \in Instants : t > now /\ now' = t
    /\ UNCHANGED <<users, txs, session, tz, inflight, last>>

NextDashboard ==
    \/ index
    \/ add_transaction({<<"3">>}, {"Income", "Expense"}, MaxRows)
    \/ Tick

SpecDashboard == InitDashboard /\ [][NextDashboard]_vars

(* ------------------------------ properties ----------------------------- *)
\* A step that serves a request leaves the request and its response in last'.
LoginPosted == last'.route = "login" /\ last'.method = "POST"
RegisterPosted == last'.route = "register" /\ last'.method = "POST"

\* C1: a delete request by an authenticated user for an existing transaction
\* of another user leaves both tables as they were and ends in the redirect
\* to the dashboard.
C1_DeleteNotOwned ==
    [][(/\ is_authenticated
        /\ last'.route = "delete"
        /\ \E t \in txs : t.id = last'.form.id /\ t.user_id # session)
       => (/\ txs' = txs
           /\ users' = users
           /\ last'.outcome = "redirect_index")]_vars

C1_Witness ==
    /\ is_authenticated
    /\ last.route = "delete"
    /\ last.outcome = "redirect_index"
    /\ \E t \in txs : t.id = last.form.id /\ t.user_id # session

\* C2: a register POST whose username is already stored is answered with the
\* username-exists notice; no user row is added or changed, no transaction
\* changes, and the session is the one the requester had.
C2_RegisterDuplicate ==
    [][(RegisterPosted /\ UserByName(last'.form.username) # {})
       => (/\ last'.outcome = "redirect_register"
           /\ last'.flashes = <<"username_exists">>
           /\ users' = users
           /\ txs' = txs
           /\ session' = session)]_vars

C2_Witness ==
    /\ last.route = "register"
    /\ last.outcome = "redirect_register"
    /\ session = NoUser
    /\ \E u \in UserByName(last.form.username) :
            /\ u.budget # DefaultBudget
            /\ \E t \in txs : t.user_id = u.id

\* C3: a login POST logs in the user of the submitted name exactly when that
\* user is stored and its hash is the hash of the submitted password under
\* its salt; otherwise the session is the one the requester had and the
\* response is the one login-failed page, whether or not the name is stored.
C3_Login ==
    [][LoginPosted
       => LET form == last'.form
              verified == {u \in users :
                             /\ u.username = form.username
                             /\ u.password = generate_password_hash(
                                                form.password, u.password.salt)}
          IN  IF verified # {}
              THEN /\ session' \in {u.id : u \in verified}
                   /\ last'.outcome = "redirect_index"
              ELSE /\ session' = session
                   /\ last' = Response("login", "POST", form, "render_login",
                                       <<"login_failed">>, None)]_vars

\* a stored user's name with the other password, from a logged-out browser
C3_Witness ==
    /\ last.route = "login"
    /\ last.flashes = <<"login_failed">>
    /\ session = NoUser
    /\ UserByName(last.form.username) # {}
    /\ Cardinality(users) = 2

\* C4: a request to a protected route from a browser without a session is
\* redirected to the login view and changes no table and no session; a
\* served logout leaves the browser without a session.
C4_LoginRequired ==
    [][/\ (~is_authenticated /\ last'.route \in ProtectedRoutes)
            => (/\ last'.outcome = "redirect_login"
                /\ users' = users
                /\ txs' = txs
                /\ session' = session)
       /\ (is_authenticated /\ last'.route = "logout")
            => ~is_authenticated']_vars

\* an add after a logout, with a user and a transaction stored
C4_Witness ==
    /\ last.route = "add"
    /\ last.outcome = "redirect_login"
    /\ users # {}
    /\ txs # {}
    /\ session = NoUser

RECURSIVE SetSum(_)
SetSum(rows) ==
    IF rows = {} THEN 0
    ELSE LET r == CHOOSE x \in rows : TRUE
         IN  r.amount + SetSum(rows \ {r})

ThisMonth(uid) ==
    {t \in txs : /\ t.user_id = uid
                 /\ Month(t.date) = Month(now + tz)
                 /\ Year(t.date) = Year(now + tz)}

\* C5: the dashboard of user U lists exactly U's transactions of the server's
\* current month and year, each once; income and expenses are the sums of the
\* listed Income and Expense amounts, and balance is income minus expenses;
\* with nothing to list the three totals are zero.
C5_MonthlySummary ==
    [][(last'.route = "index" /\ last'.outcome = "render_index" /\ now' = now)
       => LET page == last'.page
              listed == {page.transactions[i] : i \in 1..Len(page.transactions)}
          IN  /\ listed = ThisMonth(session)
              /\ Len(page.transactions) = Cardinality(listed)
              /\ page.income = SetSum({t \in listed : t.type = "Income"})
              /\ page.expenses = SetSum({t \in listed : t.type = "Expense"})
              /\ page.balance = page.income - page.expenses
              /\ ThisMonth(session) = {}
                    => /\ page.transactions = <<>>
                       /\ page.income = 0
                       /\ page.expenses = 0
                       /\ page.balance = 0]_vars

\* a dashboard of two rows, with a row of the other user, a row of another
\* month and a row of the same month of another year left out
C5_Witness ==
    /\ last.route = "index"
    /\ last.outcome = "render_index"
    /\ Len(last.page.transactions) = 1
    /\ last.page.income > 0
    /\ \E t \in txs : t.user_id # session
    /\ \E t \in txs : t.user_id = session /\ Month(t.date) # Month(now + tz)

C5_WitnessEmpty ==
    /\ last.route = "index"
    /\ last.outcome = "render_index"
    /\ last.page.transactions = <<>>
    /\ last.page.balance = 0
    /\ \E t \in txs : t.user_id = session

C7_OwnerAndCategory ==
    \A t \in txs :
        /\ Cardinality(UserById(t.user_id)) = 1
        /\ t.type \in {"Income", "Expense"}

\* C8: no stored transaction has a negative amount, and an add with a
\* negative amount stores nothing.
C8_NoNegativeAmount ==
    [][/\ \A t \in txs' : t.amount >= 0
       /\ (is_authenticated /\ last'.route = "add"
              /\ ParseFloat(last'.form.amount).ok
              /\ ParseFloat(last'.form.amount).val < 0)
            => txs' = txs]_vars

\* C9: when a user adds an Income of amount a, the dashboard's income and
\* balance are each a more than they were right before the add, and its
\* expenses are what they were.
C9_IncomeRaisesDashboard ==
    [][(last'.route = "add" /\ last'.outcome = "redirect_index"
           /\ last'.form.type = "Income" /\ txs' # txs)
       => \A before \in OrderedByDateDesc(txs, session),
             after \in OrderedByDateDesc(txs', session') :
            LET amount == ParseFloat(last'.form.amount).val
                was == MonthlySummary(before, now + tz)
                is == MonthlySummary(after, now' + tz')
            IN  /\ is.income = was.income + amount
                /\ is.balance = was.balance + amount
                /\ is.expenses = was.expenses]_vars

\* C10: no two stored users share a username, however register requests
\* interleave.
C10_UniqueUsernames ==
    \A u, v \in users : u.username = v.username => u = v

\* two requests for one new name passed the existence check; one committed
\* and the other failed on the constraint
C10_Witness ==
    /\ last.route = "register"
    /\ last.outcome = "server_error"
    /\ Cardinality(UserByName(last.form.username)) = 1
    /\ inflight = {}

====
